---- MODULE Spec2Model ----
(***************************************************************************)
(* StockCast: the Monte Carlo engine run_monte_carlo                       *)
(* (src/src/Monte_Carlo/monte-carlo-method.py).                            *)
(*                                                                         *)
(* Numbers.  A float is modelled exactly:                                  *)
(*   - a rational is a pair <<n, d>> in lowest terms with d > 0;           *)
(*     NaN is the pair <<0, 0>>;                                           *)
(*   - a real c * 2^e is a record [c, e] of two rationals, c with odd      *)
(*     numerator and denominator (zero is c = 0, e = 0);                   *)
(*   - x + k for a real x and an integer k is a record [x, k].             *)
(* Logarithms are taken to base 2 (a log return is measured in units of    *)
(* ln 2) and prices are powers of two, so that np.log and np.exp are       *)
(* exact.  Rounding of IEEE doubles is not modelled; NaN and its           *)
(* comparison (NaN is equal to nothing, itself included) are.              *)
(***************************************************************************)
EXTENDS Integers, Sequences, FiniteSets, TLC

\* ------------------------------------------------------------------ bounds
MaxSims == 2
MaxDates == 3
MaxCalls == 2

\* ------------------------------------------------- program constants
\* line 32: years * 252
TradingDays == 252

\* ------------------------------------------------------------- rationals
NaN == <<0, 0>>

IsNaN(q) == q[2] = 0

Abs(n) == IF n < 0 THEN -n ELSE n

RECURSIVE GCD(_, _)
GCD(a, b) == IF b = 0 THEN a ELSE GCD(b, a % b)

Rat(n, d) ==
    IF d = 0 THEN NaN
    ELSE LET g == GCD(Abs(n), Abs(d))
             s == IF d < 0 THEN -1 ELSE 1
         IN  <<(s * n) \div g, (s * d) \div g>>

RatInt(n) == <<n, 1>>

RatAdd(p, q) ==
    IF IsNaN(p) \/ IsNaN(q) THEN NaN
    ELSE LET g == GCD(p[2], q[2])
         IN  Rat(p[1] * (q[2] \div g) + q[1] * (p[2] \div g), (p[2] \div g) * q[2])

RatNeg(p) == IF IsNaN(p) THEN NaN ELSE <<-p[1], p[2]>>

RatSub(p, q) == RatAdd(p, RatNeg(q))

RatMul(p, q) ==
    IF IsNaN(p) \/ IsNaN(q) THEN NaN
    ELSE LET g1 == GCD(Abs(p[1]), q[2])
             g2 == GCD(Abs(q[1]), p[2])
         IN  Rat((p[1] \div g1) * (q[1] \div g2), (p[2] \div g2) * (q[2] \div g1))

\* p / q of two floats where q is not zero, or both are zero (0/0 is NaN).
RatDiv(p, q) ==
    CASE IsNaN(p) \/ IsNaN(q) -> NaN
      [] q[1] = 0 /\ p[1] = 0 -> NaN
      [] q[1] # 0 -> RatMul(p, Rat(q[2], q[1]))

\* ------------------------------------------------------- reals c * 2^e
RealNaN == [c |-> NaN, e |-> RatInt(0)]

RealIsNaN(v) == IsNaN(v.c)

RealZero == [c |-> RatInt(0), e |-> RatInt(0)]

RealOne == [c |-> RatInt(1), e |-> RatInt(0)]

RECURSIVE TwoAdic(_)
\* the exponent of 2 in a positive integer
TwoAdic(n) == IF n % 2 = 1 THEN 0 ELSE 1 + TwoAdic(n \div 2)

RECURSIVE OddPart(_)
OddPart(n) == IF n % 2 = 1 THEN n ELSE OddPart(n \div 2)

\* The real equal to the rational q.
RealOf(q) ==
    CASE IsNaN(q) -> RealNaN
      [] ~IsNaN(q) /\ q[1] = 0 -> RealZero
      [] ~IsNaN(q) /\ q[1] # 0 ->
            LET s == IF q[1] < 0 THEN -1 ELSE 1
            IN  [c |-> <<s * OddPart(Abs(q[1])), OddPart(q[2])>>,
                 e |-> RatInt(TwoAdic(Abs(q[1])) - TwoAdic(q[2]))]

RealMul(a, b) ==
    CASE RealIsNaN(a) \/ RealIsNaN(b) -> RealNaN
      [] ~(RealIsNaN(a) \/ RealIsNaN(b)) /\ (a.c[1] = 0 \/ b.c[1] = 0) -> RealZero
      [] ~(RealIsNaN(a) \/ RealIsNaN(b)) /\ a.c[1] # 0 /\ b.c[1] # 0 ->
            [c |-> RatMul(a.c, b.c), e |-> RatAdd(a.e, b.e)]

\* a / b of two floats where b is not zero, or both are zero (0/0 is NaN).
RealDiv(a, b) ==
    CASE RealIsNaN(a) \/ RealIsNaN(b) -> RealNaN
      [] ~(RealIsNaN(a) \/ RealIsNaN(b)) /\ b.c[1] = 0 /\ a.c[1] = 0 -> RealNaN
      [] ~(RealIsNaN(a) \/ RealIsNaN(b)) /\ b.c[1] # 0 /\ a.c[1] = 0 -> RealZero
      [] ~(RealIsNaN(a) \/ RealIsNaN(b)) /\ b.c[1] # 0 /\ a.c[1] # 0 ->
            [c |-> RatDiv(a.c, b.c), e |-> RatSub(a.e, b.e)]

\* np.exp of a log return r (in units of ln 2): 2^r.
Exp(r) == IF IsNaN(r) THEN RealNaN ELSE [c |-> RatInt(1), e |-> r]

RECURSIVE Log2Int(_)
\* log2 of a positive integer that is a power of two
Log2Int(n) == IF n = 1 THEN 0 ELSE 1 + Log2Int(n \div 2)

\* np.log of a positive price ratio (in units of ln 2); prices are powers of two.
Log(q) == IF IsNaN(q) THEN NaN ELSE RatInt(Log2Int(q[1]) - Log2Int(q[2]))

\* v ** p for the bases the engine raises: NaN, 0, 2^e, or any base with p = 1.
Pow(v, p) ==
    CASE RealIsNaN(v) \/ IsNaN(p) -> RealNaN
      [] ~(RealIsNaN(v) \/ IsNaN(p)) /\ p = RatInt(1) -> v
      [] ~(RealIsNaN(v) \/ IsNaN(p)) /\ p # RatInt(1) /\ v.c = RatInt(1) ->
            [c |-> RatInt(1), e |-> RatMul(v.e, p)]
      [] ~(RealIsNaN(v) \/ IsNaN(p)) /\ p # RatInt(1) /\ v.c = RatInt(0) /\ p[1] > 0 ->
            RealZero

\* ------------------------------------------------- shifted reals x + k
Lift(x) == [x |-> x, k |-> 0]

Shift(s, n) == [x |-> s.x, k |-> s.k + n]

ShiftIsNaN(s) == RealIsNaN(s.x)

\* The comparison of two floats in a claim: IEEE equality, NaN equals nothing.
FEq(a, b) == ~RealIsNaN(a) /\ ~RealIsNaN(b) /\ a = b

SEq(s, t) == ~ShiftIsNaN(s) /\ ~ShiftIsNaN(t) /\ s = t

\* ------------------------------------------------------ folds over 1..n
RECURSIVE SumRange(_, _, _)
\* the sum of the rationals f[lo..hi]
SumRange(f, lo, hi) ==
    IF lo > hi THEN RatInt(0)
    ELSE IF lo = hi THEN f[lo]
    ELSE LET mid == (lo + hi) \div 2
         IN  RatAdd(SumRange(f, lo, mid), SumRange(f, mid + 1, hi))

RECURSIVE ProdRange(_, _, _)
\* the product of the reals f[lo..hi]
ProdRange(f, lo, hi) ==
    IF lo > hi THEN RealOne
    ELSE IF lo = hi THEN f[lo]
    ELSE LET mid == (lo + hi) \div 2
         IN  RealMul(ProdRange(f, lo, mid), ProdRange(f, mid + 1, hi))

\* ndarray.prod()
Prod(f) == ProdRange(f, 1, Len(f))

\* ndarray.sum()
Sum(f) == SumRange(f, 1, Len(f))

\* np.std(xs): the population standard deviation, kept as the rational under
\* the square root.
Std(xs) ==
    LET n == Len(xs)
        m == RatDiv(Sum(xs), RatInt(n))
        sq == [d \in 1..n |-> RatMul(xs[d], xs[d])]
    IN  [sqrt_of |-> RatSub(RatDiv(Sum(sq), RatInt(n)), RatMul(m, m))]

\* np.sqrt(n), kept as the rational under the square root.
Sqrt(n) == [sqrt_of |-> RatInt(n)]

\* the product of two square roots
SqrtMul(a, b) == [sqrt_of |-> RatMul(a.sqrt_of, b.sqrt_of)]

\* ------------------------------------------- the price provider (yfinance)
\* Ticker symbols, numbered in alphabetical order.
Symbols == {1, 2}

RECURSIVE Pow2(_)
Pow2(k) == IF k = 0 THEN 1 ELSE 2 * Pow2(k - 1)

\* The adjusted close the provider has for a symbol on a date on which it has
\* one: symbol 1 alternates 1, 2, 1, 2, ...; symbol 2 doubles every second
\* date 1, 1, 2, 2, 4, ...
SymbolPrice(sym, t) ==
    IF sym = 1 THEN (IF t % 2 = 0 THEN 2 ELSE 1) ELSE Pow2((t - 1) \div 2)

Dates == 1..MaxDates

\* The symbols of a list of tickers.
SymbolsOf(tks) == {tks[n] : n \in 1..Len(tks)}

\* The provider's histories of the requested symbols: for each the first date
\* with a price; the symbol has no price before it, and none at all when it
\* is MaxDates + 1.
Listings(tks) == [SymbolsOf(tks) -> 1..(MaxDates + 1)]

AdjClose(listed, sym, t) ==
    IF t >= listed[sym] THEN RatInt(SymbolPrice(sym, t)) ELSE NaN

RECURSIVE SortedSeq(_)
\* the elements of a finite set of integers in increasing order
SortedSeq(S) ==
    IF S = {} THEN <<>>
    ELSE LET m == CHOOSE x \in S : \A y \in S : x <= y
         IN  <<m>> \o SortedSeq(S \ {m})

\* yf.download(tickers, start, end)["Adj Close"]: one column per distinct
\* requested symbol, the columns in alphabetical order, one row per date.
Download(listed, tks) ==
    LET cols == SortedSeq(SymbolsOf(tks))
    IN  [cols |-> cols,
         rows |-> [t \in Dates |->
                    [date |-> t,
                     v |-> [j \in 1..Len(cols) |-> AdjClose(listed, cols[j], t)]]]]

RowHasNaN(r) == \E j \in 1..Len(r.v) : IsNaN(r.v[j])

\* dropna(how='all'): only the rows with nothing but missing values go.
DropNaAll(rows) ==
    SelectSeq(rows, LAMBDA r : \E j \in 1..Len(r.v) : ~IsNaN(r.v[j]))

\* DataFrame.dropna(): the rows without a missing value, in order.
DropNa(rows) == SelectSeq(rows, LAMBDA r : ~RowHasNaN(r))

\* np.log(price_data / price_data.shift(1)): row t is the log of the ratio to
\* the previous row; the first row has no previous row and is all NaN.
LogReturns(rows) ==
    [t \in 1..Len(rows) |->
       [date |-> rows[t].date,
        v |-> [j \in 1..Len(rows[t].v) |->
                 IF t = 1 THEN NaN ELSE Log(RatDiv(rows[t].v[j], rows[t - 1].v[j]))]]]

\* DataFrame.mean(): per column, NaN when there is no row.
Mean(rows, ncols) ==
    [j \in 1..ncols |->
       IF Len(rows) = 0 THEN NaN
       ELSE RatDiv(Sum([t \in 1..Len(rows) |-> rows[t].v[j]]), RatInt(Len(rows)))]

\* DataFrame.cov(): the unbiased sample covariance, NaN with fewer than 2 rows.
Cov(rows, ncols) ==
    LET n == Len(rows)
        m == Mean(rows, ncols)
    IN  [j \in 1..ncols |-> [k \in 1..ncols |->
           IF n < 2 THEN NaN
           ELSE RatDiv(Sum([t \in 1..n |->
                             RatMul(RatSub(rows[t].v[j], m[j]), RatSub(rows[t].v[k], m[k]))]),
                       RatInt(n - 1))]]

HasNaN(cov) == \E j \in DOMAIN cov : \E k \in DOMAIN cov[j] : IsNaN(cov[j][k])

\* ------------------------------------------- the random source (np.random)
Seeds == {0, 1}

\* The state of the module-level random source: the seed the process seeded it
\* with before the first call and the number of variates drawn since.  The
\* engine never seeds it.
RngStates == [seed : Seeds, pos : Nat]

\* The standard normal variate at a position of the stream of a seed, one of
\* -1, 0, 1.
StandardNormal(seed, pos) == (((seed + 2) * pos + (pos \div 5) + seed) % 3) - 1

\* Every row the mean itself, the covariance not used.
MultivariateNormalOfMean(mean, cov, size, rng) ==
    [d \in 1..size |-> [i \in 1..Len(mean) |-> mean[i]]]

\* np.random.multivariate_normal(mean, cov, size): size rows, each the mean
\* plus a linear image of len(mean) standard normal variates.  The factor A
\* with A^T A = cov is represented by cov itself (a matrix square root is not
\* rational); variates are consumed row by row.
MultivariateNormal(mean, cov, size, rng) ==
    LET n == Len(mean)
        z(d, j) == StandardNormal(rng.seed, rng.pos + (d - 1) * n + (j - 1))
    IN  [d \in 1..size |-> [i \in 1..n |->
           RatAdd(mean[i],
                  Sum([j \in 1..n |-> RatMul(RatInt(z(d, j)), cov[j][i])]))]]

\* ------------------------------------------------------------ the state
VARIABLES
    tickers,          \* argument: the list of requested symbols
    portfolio_value,  \* argument
    years,            \* argument
    num_simulations,  \* argument
    listed,           \* the provider's history of the requested symbols
    rng,              \* the module-level random source np.random
    pc,               \* "idle", "loop" (at the for sim header), "row" (at the
                      \* for i header), "returned", "error"
    price_data,       \* locals of run_monte_carlo
    daily_returns,
    mean_returns,
    cov_matrix,
    num_days,
    results,
    row_id,
    sim,
    i,
    simulated,
    table,            \* the DataFrame the caller received from this call
    error,            \* the exception the caller received from this call
    stages,           \* what this call has done: "download", "estimate", "draw"
    calls,            \* the number of calls made
    prev,             \* the outcome of the previous call
    fn,               \* the function under a direct call, "none" in a run of
                      \* run_monte_carlo
    fn_pc,            \* "called", then "returned" or "raised"
    fn_arg,           \* the argument of the direct call
    fn_ret,           \* what the direct call returned
    fn_exc,           \* the exception the direct call raised
    fn_kept           \* the index labels of the input rows behind fn_ret

vars == <<tickers, portfolio_value, years, num_simulations, listed, rng, pc,
          price_data, daily_returns, mean_returns, cov_matrix, num_days,
          results, row_id, sim, i, simulated, table, error, stages, calls, prev,
          fn, fn_pc, fn_arg, fn_ret, fn_exc, fn_kept>>

fn_vars == <<fn, fn_pc, fn_arg, fn_ret, fn_exc, fn_kept>>

args == <<tickers, portfolio_value, years, num_simulations, listed>>

model_vars == <<price_data, daily_returns, mean_returns, cov_matrix, num_days>>

TickerLists == UNION {[1..n -> Symbols] : n \in 0..2}

PortfolioValues == {-3, 0, 3}

YearsValues == {-1, 0, 1, 2}

SimulationCounts == (-1)..MaxSims

NoPrev == [outcome |-> "none", seed |-> 0, table |-> <<>>]

Init ==
    /\ tickers \in TickerLists
    /\ portfolio_value \in PortfolioValues
    /\ years \in YearsValues
    /\ num_simulations \in SimulationCounts
    /\ listed \in Listings(tickers)
    /\ rng \in [seed : Seeds, pos : {0}]
    /\ pc = "idle"
    /\ price_data = <<>>
    /\ daily_returns = <<>>
    /\ mean_returns = <<>>
    /\ cov_matrix = <<>>
    /\ num_days = 0
    /\ results = <<>>
    /\ row_id = 0
    /\ sim = 0
    /\ i = 0
    /\ simulated = <<>>
    /\ table = <<>>
    /\ error = "none"
    /\ stages = {}
    /\ calls = 0
    /\ prev = NoPrev
    /\ fn = "none"
    /\ fn_pc = "called"
    /\ fn_arg = <<>>
    /\ fn_ret = <<>>
    /\ fn_exc = "none"
    /\ fn_kept = <<>>

\* ------------------------------------------------------ run_monte_carlo
\* The share left undivided.
StartingValWhole(pv, tks) == RealOf(RatInt(pv))

\* Line 44: the equal-weight share.
StartingVal(pv, tks) == RealOf(RatDiv(RatInt(pv), RatInt(Len(tks))))

\* Line 45: column i (0-based) of the simulated path.
TickerReturns(path, col) == [d \in 1..Len(path) |-> path[d][col + 1]]

\* Line 46: np.exp over the column.
GrowthFactors(rets) == [d \in 1..Len(rets) |-> Exp(rets[d])]

\* Line 47.
EndingVal(start, rets) == RealMul(start, Prod(GrowthFactors(rets)))

\* Line 49.
AnnualReturn(ending, start, yrs) ==
    Shift(Lift(Pow(RealDiv(ending, start), RatDiv(RatInt(1), RatInt(yrs)))), -1)

\* Line 50.
CumulativeReturn(ending, start) == Shift(Lift(RealDiv(ending, start)), -1)

\* Line 51.
Volatility(rets) == SqrtMul(Std(rets), Sqrt(TradingDays))

\* 1 // n, the floor division.
ProbabilityFloorDiv(n) == RatInt(1 \div n)

\* Line 52.
Probability(n) == RatDiv(RatInt(1), RatInt(n))

\* Lines 54-65: the row of simulation s and ticker index col (0-based).
MakeRow(id, tks, col, s, yrs, pv, n, path) ==
    LET start == StartingVal(pv, tks)
        rets == TickerReturns(path, col)
        ending == EndingVal(start, rets)
    IN  [id |-> id,
         ticker |-> tks[col + 1],
         simulation_id |-> s,
         year |-> yrs,
         starting_value |-> start,
         ending_value |-> ending,
         annual_return |-> AnnualReturn(ending, start, yrs),
         cumulative_return |-> CumulativeReturn(ending, start),
         volatility |-> Volatility(rets),
         probability |-> Probability(n)]

\* Line 32.
NumDays(yrs) == yrs * TradingDays

\* The outer loop one simulation short.
SimsDoneEarly(s, n) == s + 1 >= n

\* Line 37: the for sim header has run out.
SimsDone(s, n) == s >= n

\* Line 43: the for i header has run out.
TickersDone(col, tks) == col >= Len(tks)

\* The counter stepped by two.
NextRowIdSkip(id) == id + 2

\* Line 67.
NextRowId(id) == id + 1

\* The rows emitted so far handed to the caller with the error.
FailPartial(e) ==
    /\ pc' = "error"
    /\ error' = e
    /\ table' = results

\* An exception leaves run_monte_carlo: nothing in lines 24-69 catches it,
\* and the caller receives no table.
Fail(e) ==
    /\ pc' = "error"
    /\ error' = e
    /\ table' = <<>>

\* The caller calls run_monte_carlo with the arguments: lines 24-35.  With no
\* ticker the provider has nothing to assemble and the download raises.
Call ==
    /\ pc \in {"idle", "returned", "error"}
    /\ calls < MaxCalls
    /\ calls' = calls + 1
    /\ prev' = IF calls = 0 THEN NoPrev
               ELSE [outcome |-> pc, seed |-> rng.seed, table |-> table]
    /\ simulated' = <<>>
    /\ i' = 0
    /\ IF Len(tickers) = 0
       THEN /\ Fail("ValueError")
            /\ stages' = {"download"}
            /\ price_data' = <<>>
            /\ daily_returns' = <<>>
            /\ mean_returns' = <<>>
            /\ cov_matrix' = <<>>
            /\ num_days' = 0
            /\ results' = <<>>
            /\ row_id' = 0
            /\ sim' = 0
       ELSE LET dl == Download(listed, tickers)
                prices == DropNa(dl.rows)
                rets == DropNa(LogReturns(prices))
            IN  /\ price_data' = prices
                /\ daily_returns' = rets
                /\ mean_returns' = Mean(rets, Len(dl.cols))
                /\ cov_matrix' = Cov(rets, Len(dl.cols))
                /\ num_days' = NumDays(years)
                /\ results' = <<>>
                /\ row_id' = 0
                /\ sim' = 0
                /\ stages' = {"download", "estimate"}
                /\ pc' = "loop"
                /\ error' = "none"
                /\ table' = <<>>
    /\ UNCHANGED <<fn_vars, args, rng>>

\* Lines 37-41: the next simulation starts with its draw.  A negative size is
\* refused before any variate is drawn; the variates are drawn before the
\* covariance is decomposed, and the decomposition of a covariance with a
\* NaN does not converge.
Draw ==
    /\ pc = "loop"
    /\ ~SimsDone(sim, num_simulations)
    /\ stages' = stages \cup {"draw"}
    /\ i' = 0
    /\ IF num_days < 0
       THEN /\ Fail("ValueError")
            /\ UNCHANGED <<rng, simulated>>
       ELSE /\ rng' = [rng EXCEPT !.pos = @ + num_days * Len(mean_returns)]
            /\ IF HasNaN(cov_matrix)
               THEN /\ Fail("LinAlgError")
                    /\ UNCHANGED simulated
               ELSE /\ simulated' = MultivariateNormal(mean_returns, cov_matrix, num_days, rng)
                    /\ pc' = "row"
                    /\ UNCHANGED <<error, table>>
    /\ UNCHANGED <<fn_vars, args, model_vars, results, row_id, sim, calls, prev>>

\* Lines 43-67: one pass of the body of the inner loop; after the last ticker
\* the outer loop moves to the next simulation.  The path has one column per
\* distinct ticker, and 1 / years divides by zero when years is 0.
EmitRow ==
    /\ pc = "row"
    /\ ~TickersDone(i, tickers)
    /\ IF i >= Len(mean_returns)
       THEN /\ Fail("IndexError")
            /\ UNCHANGED <<results, row_id, sim, i>>
       ELSE IF years = 0
       THEN /\ Fail("ZeroDivisionError")
            /\ UNCHANGED <<results, row_id, sim, i>>
       ELSE /\ results' = Append(results,
                  MakeRow(row_id, tickers, i, sim, years, portfolio_value,
                          num_simulations, simulated))
            /\ row_id' = NextRowId(row_id)
            /\ IF TickersDone(i + 1, tickers)
               THEN /\ sim' = sim + 1
                    /\ i' = 0
                    /\ pc' = "loop"
               ELSE /\ i' = i + 1
                    /\ UNCHANGED <<sim, pc>>
            /\ UNCHANGED <<error, table>>
    /\ UNCHANGED <<fn_vars, args, rng, model_vars, simulated, stages, calls, prev>>

\* Line 69: the loop is over, the rows become the returned table.
Return ==
    /\ pc = "loop"
    /\ SimsDone(sim, num_simulations)
    /\ pc' = "returned"
    /\ table' = results
    /\ UNCHANGED <<fn_vars, args, rng, model_vars, results, row_id, sim, i, simulated,
                   error, stages, calls, prev>>

Next == Call \/ Draw \/ EmitRow \/ Return

Spec == Init /\ [][Next]_vars

\* --------------------------------------- lines 24-31 on a downloaded table
\* The state of a process in which run_monte_carlo is not running.
EngineIdle ==
    /\ tickers = <<>>
    /\ portfolio_value = 0
    /\ years = 0
    /\ num_simulations = 0
    /\ listed = <<>>
    /\ rng = [seed |-> 0, pos |-> 0]
    /\ pc = "idle"
    /\ price_data = <<>>
    /\ daily_returns = <<>>
    /\ mean_returns = <<>>
    /\ cov_matrix = <<>>
    /\ num_days = 0
    /\ results = <<>>
    /\ row_id = 0
    /\ sim = 0
    /\ i = 0
    /\ simulated = <<>>
    /\ table = <<>>
    /\ error = "none"
    /\ stages = {}
    /\ calls = 0
    /\ prev = NoPrev

engine_vars == <<tickers, portfolio_value, years, num_simulations, listed, rng,
                 pc, num_days, results, row_id, sim, i, simulated, table, error,
                 stages, calls, prev>>

\* The adjusted closes a downloaded table can hold on a date: a price, or NaN
\* where the symbol did not trade.
Cells == {NaN, RatInt(1), RatInt(2)}

\* The tables yf.download(...)["Adj Close"] can return for one or two
\* symbols: one row per date of the union of the symbols' dates, a NaN where
\* a symbol has no price on the date.
DownloadedTables(dates) ==
    UNION {{[cols |-> cols,
             rows |-> [t \in dates |-> [date |-> t, v |-> cells[t]]]] :
               cells \in [dates -> [1..Len(cols) -> Cells]]} :
           cols \in {<<1>>, <<1, 2>>}}

InitEstimate ==
    /\ EngineIdle
    /\ fn = "estimate"
    /\ fn_pc = "called"
    /\ fn_arg \in DownloadedTables(Dates)
    /\ fn_ret = <<>>
    /\ fn_exc = "none"
    /\ fn_kept = <<>>

\* Lines 24-31 applied to the downloaded table fn_arg.
Estimate ==
    /\ fn = "estimate"
    /\ fn_pc = "called"
    /\ LET prices == DropNa(fn_arg.rows)
           rets == DropNa(LogReturns(prices))
       IN  /\ price_data' = prices
           /\ daily_returns' = rets
           /\ mean_returns' = Mean(rets, Len(fn_arg.cols))
           /\ cov_matrix' = Cov(rets, Len(fn_arg.cols))
    /\ fn_pc' = "returned"
    /\ UNCHANGED <<engine_vars, fn, fn_arg, fn_ret, fn_exc, fn_kept>>

NextEstimate == Estimate

SpecEstimate == InitEstimate /\ [][NextEstimate]_vars

\* ================================================ Transform: DataFrames
\* A DataFrame: the column labels in order, the index label of each row, and
\* the rows, each a function from the column labels to values.  A price or a
\* volume is a rational, NaN when missing; a ticker is a string, the sequence
\* of its character codes; an index label is a date value.
DataModelColumns ==
    <<"ticker", "date", "open", "high", "low", "close", "adj_close", "volume">>

Range(s) == {s[k] : k \in 1..Len(s)}

\* pd.DataFrame(columns=...): no row.
EmptyFrame(cols) == [columns |-> cols, index |-> <<>>, data |-> <<>>]

\* DataFrame.empty: an axis of length 0.
IsEmpty(df) == Len(df.data) = 0 \/ Len(df.columns) = 0

\* The rows at the positions ks, in that order, with their index labels.
Take(df, ks) ==
    [columns |-> df.columns,
     index |-> [j \in 1..Len(ks) |-> df.index[ks[j]]],
     data |-> [j \in 1..Len(ks) |-> df.data[ks[j]]]]

\* df[mask]: the rows on which the test holds, in order.
Where(df, mask) ==
    Take(df, SelectSeq([k \in 1..Len(df.data) |-> k], LAMBDA k : mask[k]))

\* df[col]: the values of one column, row by row.
Column(df, col) == [k \in 1..Len(df.data) |-> df.data[k][col]]

\* df[col] = ...: the column replaced, or appended as the last column.
Assign(df, col, values) ==
    [columns |-> IF col \in Range(df.columns) THEN df.columns
                 ELSE Append(df.columns, col),
     index |-> df.index,
     data |-> [k \in 1..Len(df.data) |->
                 [c \in Range(df.columns) \cup {col} |->
                    IF c = col THEN values[k] ELSE df.data[k][c]]]]

\* The frame with all its columns, in the order it has them.
SelectColumnsLoose(df, cols) == df

\* df[cols]: the listed columns in the listed order.
SelectColumns(df, cols) ==
    [columns |-> cols,
     index |-> df.index,
     data |-> [k \in 1..Len(df.data) |-> [c \in Range(cols) |-> df.data[k][c]]]]

\* The integer n as an index label or a date value.
IntLabel(n) == [kind |-> "int", v |-> n]

\* The default index 0, 1, ... of n rows.
RangeIndex(n) == [k \in 1..n |-> IntLabel(k - 1)]

\* reset_index(drop=True): the index labels become 0, 1, ...
ResetIndexDrop(df) == [df EXCEPT !.index = RangeIndex(Len(df.data))]

\* ----------------------------------------------------- strings and dates
\* str.upper() and str.lower() on character codes: a-z is 97..122, A-Z 65..90.
Upper(s) == [k \in 1..Len(s) |-> IF s[k] \in 97..122 THEN s[k] - 32 ELSE s[k]]

Lower(s) == [k \in 1..Len(s) |-> IF s[k] \in 65..90 THEN s[k] + 32 ELSE s[k]]

\* s < t for strings: the order of the first differing character, a proper
\* prefix first.
RECURSIVE StrLess(_, _)
StrLess(s, t) ==
    CASE Len(t) = 0 -> FALSE
      [] Len(t) > 0 /\ Len(s) = 0 -> TRUE
      [] Len(t) > 0 /\ Len(s) > 0 /\ s[1] # t[1] -> s[1] < t[1]
      [] Len(t) > 0 /\ Len(s) > 0 /\ s[1] = t[1] -> StrLess(Tail(s), Tail(t))

\* A date value is a Timestamp (v hours since the epoch), a datetime.date
\* (v days since the epoch), or an integer.
HoursPerDay == 24
SecondsPerHour == 3600
NanosPerSecond == 1000000000

Timestamp(h) == [kind |-> "Timestamp", v |-> h]

DateObj(d) == [kind |-> "date", v |-> d]

\* pd.to_datetime: a date is its midnight, an integer is that many
\* nanoseconds since the epoch.
ToDatetime(x) ==
    CASE x.kind = "Timestamp" -> x
      [] x.kind = "date" -> Timestamp(x.v * HoursPerDay)
      [] x.kind = "int" -> Timestamp((x.v \div NanosPerSecond) \div SecondsPerHour)

\* .dt.date: the calendar day of a Timestamp.
DtDate(ts) == DateObj(ts.v \div HoursPerDay)

\* ----------------------------------------------------- clean_stock_data
PriceCols == <<"open", "high", "low", "close", "adj_close">>

\* q > 0 and p >= q on floats: False when an operand is NaN.
Positive(q) == ~IsNaN(q) /\ q[1] > 0

Geq(p, q) == ~IsNaN(p) /\ ~IsNaN(q) /\ p[1] * q[2] >= q[1] * p[2]

\* Lines 193-196.
NormalizeDate(df) ==
    IF "date" \in Range(df.columns)
    THEN Assign(df, "date", [k \in 1..Len(df.data) |-> DtDate(ToDatetime(df.data[k].date))])
    ELSE df

\* Lines 199-200; astype(str) leaves a string as it is.
NormalizeTicker(df) ==
    IF "ticker" \in Range(df.columns)
    THEN Assign(df, "ticker", [k \in 1..Len(df.data) |-> Upper(df.data[k].ticker)])
    ELSE df

\* Line 204: dropna(subset=price_cols).
DropMissingPrices(df) ==
    Where(df, [k \in 1..Len(df.data) |-> \A c \in Range(PriceCols) : ~IsNaN(df.data[k][c])])

\* Lines 207-208: one filter per price column, the first k columns done.
RECURSIVE PositivePrices(_, _)
PositivePrices(df, k) ==
    IF k = 0 THEN df
    ELSE LET kept == PositivePrices(df, k - 1)
         IN  Where(kept, [j \in 1..Len(kept.data) |-> Positive(kept.data[j][PriceCols[k]])])

\* Lines 211-217.
ValidRanges(df) ==
    Where(df, [k \in 1..Len(df.data) |->
        LET r == df.data[k]
        IN
        /\ Geq(r.high, r.low)
        /\ Geq(r.high, r.open)
        /\ Geq(r.high, r.close)
        /\ Geq(r.open, r.low)
        /\ Geq(r.close, r.low)])

\* astype(int) on a float: the fraction is cut off, towards zero.
AsInt(q) ==
    IF q[1] >= 0 THEN RatInt(q[1] \div q[2]) ELSE RatInt(-((-q[1]) \div q[2]))

\* Lines 220-223.
CleanVolume(df) ==
    IF "volume" \in Range(df.columns)
    THEN LET filled == Assign(df, "volume",
                              [k \in 1..Len(df.data) |->
                                  IF IsNaN(df.data[k].volume) THEN RatInt(0)
                                  ELSE df.data[k].volume])
             cast == Assign(filled, "volume",
                            [k \in 1..Len(df.data) |-> AsInt(filled.data[k].volume)])
         IN  Where(cast, [k \in 1..Len(df.data) |-> Geq(cast.data[k].volume, RatInt(0))])
    ELSE df

\* Line 226: drop_duplicates(subset=['ticker', 'date'], keep='first').
DropDuplicates(df) ==
    Take(df, SelectSeq([k \in 1..Len(df.data) |-> k],
                       LAMBDA k : \A j \in 1..(k - 1) :
                           ~(/\ df.data[j].ticker = df.data[k].ticker
                             /\ df.data[j].date = df.data[k].date)))

\* The order of sort_values(['ticker', 'date']) on two rows.
RowLess(r, s) ==
    \/ StrLess(r.ticker, s.ticker)
    \/ r.ticker = s.ticker /\ r.date.v < s.date.v

\* The positions of ks in sorted order, equal keys in their given order.
RECURSIVE SortPositions(_, _)
SortPositions(df, ks) ==
    IF ks = {} THEN <<>>
    ELSE LET m == CHOOSE k \in ks : \A j \in ks \ {k} :
                     \/ RowLess(df.data[k], df.data[j])
                     \/ ~RowLess(df.data[j], df.data[k]) /\ k < j
         IN  <<m>> \o SortPositions(df, ks \ {m})

\* Line 229, before the index is reset.
SortValues(df) == Take(df, SortPositions(df, 1..Len(df.data)))

\* Lines 190-229 up to the sort: the rows of the result under the index
\* labels they had in df.
CleanRows(df) ==
    SortValues(DropDuplicates(CleanVolume(ValidRanges(
        PositivePrices(DropMissingPrices(NormalizeTicker(NormalizeDate(df))),
                       Len(PriceCols))))))

\* clean_stock_data(df).
CleanStockData(df) == IF IsEmpty(df) THEN df ELSE ResetIndexDrop(CleanRows(df))

\* ----------------------------------------- clean_stock_data called directly
MaxRows == 3
MaxDirtyRows == 2

\* A row of the data model.
StockRow(ticker, date, shape) ==
    [ticker |-> ticker, date |-> date, open |-> shape.open, high |-> shape.high,
     low |-> shape.low, close |-> shape.close, adj_close |-> shape.adj_close,
     volume |-> shape.volume]

\* A table of the data model with the default index 0, 1, ...
StockFrame(rows) ==
    [columns |-> DataModelColumns,
     index |-> RangeIndex(Len(rows)),
     data |-> rows]

\* The tickers "a", "A" and "B", and three times on two days.
CleanTickers == {<<97>>, <<65>>, <<66>>}

CleanDates == {Timestamp(24), Timestamp(30), Timestamp(48)}

\* A bar that passes every check, and the values one of its fields can take
\* instead.
GoodBar ==
    [open |-> RatInt(2), high |-> RatInt(3), low |-> RatInt(1),
     close |-> RatInt(2), adj_close |-> RatInt(2), volume |-> RatInt(1)]

PriceValues ==
    {NaN, RatInt(-1), RatInt(0), Rat(1, 2), RatInt(1), RatInt(2), RatInt(3), RatInt(4)}

VolumeValues == {NaN, RatInt(-1), Rat(-1, 2), RatInt(0), Rat(3, 2), RatInt(2)}

DirtyBars ==
    {[GoodBar EXCEPT ![c] = v] : c \in Range(PriceCols), v \in PriceValues}
    \cup {[GoodBar EXCEPT !.volume = v] : v \in VolumeValues}

KeyBars == {[GoodBar EXCEPT !.volume = v] : v \in {RatInt(1), RatInt(2), Rat(-1, 2)}}

\* Tables of up to m rows of one ticker with any bar, and tables of up to n
\* rows with any ticker and time.
CleanInputs(n, m) ==
    {StockFrame(rows) :
        rows \in UNION {[1..k -> {StockRow(<<65>>, d, b) :
                                     d \in {Timestamp(24), Timestamp(48)},
                                     b \in DirtyBars}] : k \in 0..m}}
    \cup
    {StockFrame(rows) :
        rows \in UNION {[1..k -> {StockRow(t, d, b) :
                                     t \in CleanTickers, d \in CleanDates,
                                     b \in KeyBars}] : k \in 0..n}}

InitClean ==
    /\ EngineIdle
    /\ fn = "clean_stock_data"
    /\ fn_pc = "called"
    /\ fn_arg \in CleanInputs(MaxRows, MaxDirtyRows)
    /\ fn_ret = <<>>
    /\ fn_exc = "none"
    /\ fn_kept = <<>>

\* clean_stock_data(fn_arg) returns.
Clean ==
    /\ fn = "clean_stock_data"
    /\ fn_pc = "called"
    /\ fn_ret' = CleanStockData(fn_arg)
    /\ fn_kept' = IF IsEmpty(fn_arg) THEN fn_arg.index ELSE CleanRows(fn_arg).index
    /\ fn_pc' = "returned"
    /\ UNCHANGED <<engine_vars, model_vars, fn, fn_arg, fn_exc>>

NextClean == Clean

SpecClean == InitClean /\ [][NextClean]_vars

\* ------------------------------------------------- provider DataFrames
\* A provider's DataFrame has in addition the name of its index ("none" when
\* it has none) and says whether its columns are a MultiIndex; a label of a
\* MultiIndex is a pair <<ticker, field>>, the ticker at level 0, and the
\* MultiIndex has the names of its levels.

\* The outcome of a call: a returned table or a raised exception.
Returned(df) == [exc |-> [type |-> "none", msg |-> ""], ret |-> df]

Raised(type, msg) == [exc |-> [type |-> type, msg |-> msg], ret |-> <<>>]

\* str.lower() on the column labels that occur.
LowerName(c) ==
    CASE c = "Open" -> "open"
      [] c = "High" -> "high"
      [] c = "Low" -> "low"
      [] c = "Close" -> "close"
      [] c = "Volume" -> "volume"
      [] c = "Adj Close" -> "adj close"
      [] c = "Date" -> "date"
      [] OTHER -> c

\* 'name' in df.columns: for a MultiIndex a level-0 value, a ticker.
HasColumn(df, name) == ~df.multi /\ name \in Range(df.columns)

\* data.columns.get_level_values(0).unique(): in order of first occurrence.
RECURSIVE Unique(_)
Unique(s) ==
    IF s = <<>> THEN <<>>
    ELSE LET rest == Unique(SubSeq(s, 1, Len(s) - 1))
         IN  IF s[Len(s)] \in Range(rest) THEN rest ELSE Append(rest, s[Len(s)])

Level(df, n) == [k \in 1..Len(df.columns) |-> df.columns[k][n]]

\* data[ticker]: the columns of the ticker under their level-1 labels.
SubFrame(df, ticker) ==
    LET labels == SelectSeq(df.columns, LAMBDA l : l[1] = ticker)
        fields == [k \in 1..Len(labels) |-> labels[k][2]]
    IN  [multi |-> FALSE,
         columns |-> fields,
         index_name |-> df.index_name,
         index |-> df.index,
         data |-> [k \in 1..Len(df.data) |->
                     [f \in Range(fields) |-> df.data[k][<<ticker, f>>]]]]

\* reset_index(): the index becomes the first column, under its name, or
\* 'index', or 'level_0' when there is a column 'index'; the new index is
\* 0, 1, ...
ResetIndex(df) ==
    LET name == IF df.index_name # "none" THEN df.index_name
                ELSE IF "index" \in Range(df.columns) THEN "level_0" ELSE "index"
    IN  [multi |-> FALSE,
         columns |-> <<name>> \o df.columns,
         index_name |-> "none",
         index |-> RangeIndex(Len(df.data)),
         data |-> [k \in 1..Len(df.data) |->
                     [c \in Range(df.columns) \cup {name} |->
                        IF c = name THEN df.index[k] ELSE df.data[k][c]]]]

\* rename(columns={old: new}): a frame without the label is left as it is.
Rename(df, old, new) ==
    IF old \notin Range(df.columns) THEN df
    ELSE [df EXCEPT
            !.columns = [k \in 1..Len(df.columns) |->
                           IF df.columns[k] = old THEN new ELSE df.columns[k]],
            !.data = [k \in 1..Len(df.data) |->
                        [c \in (Range(df.columns) \ {old}) \cup {new} |->
                           IF c = new THEN df.data[k][old] ELSE df.data[k][c]]]]

\* df.columns = df.columns.str.lower(), label by label.
RECURSIVE LowerColumns(_, _)
LowerColumns(df, k) ==
    IF k = 0 THEN df
    ELSE LET low == LowerColumns(df, k - 1)
         IN  Rename(low, df.columns[k], LowerName(df.columns[k]))

\* A frame as a plain table: labels, index, rows.
Plain(df) == [columns |-> df.columns, index |-> df.index, data |-> df.data]

\* pd.concat(frames, ignore_index=True) of frames with the same columns.
RECURSIVE ConcatData(_)
ConcatData(frames) ==
    IF frames = <<>> THEN <<>> ELSE Head(frames).data \o ConcatData(Tail(frames))

Concat(frames) ==
    [columns |-> frames[1].columns,
     index |-> RangeIndex(Len(ConcatData(frames))),
     data |-> ConcatData(frames)]

\* ------------------------------------------------ transform_yfinance_data
RequiredCols == <<"open", "high", "low", "close", "volume">>

\* Lines 56-61 and 90-93: without a column 'date' the index is reset once
\* more and the first column, the new one, is named 'date'.
WithDateColumn(df) ==
    IF "date" \in Range(df.columns) THEN df
    ELSE LET again == ResetIndex(df)
         IN  Rename(again, again.columns[1], "date")

\* The adjusted close overwritten by the close in every case.
AdjCloseOverwritten(df, has_adj_close) == Assign(df, "adj_close", Column(df, "close"))

\* Lines 69-76.
AdjCloseOf(df, has_adj_close) ==
    IF has_adj_close /\ "adj close" \in Range(df.columns)
    THEN Assign(df, "adj_close", Column(df, "adj close"))
    ELSE IF "adj_close" \in Range(df.columns) THEN df
    ELSE Assign(df, "adj_close", Column(df, "close"))

\* Lines 47-82: the frame of one ticker, or the exception.
TickerFrame(data, ticker, has_adj_close) ==
    LET reset == ResetIndex(SubFrame(data, ticker))
        dated == WithDateColumn(LowerColumns(reset, Len(reset.columns)))
    IN  IF \E c \in Range(RequiredCols) : c \notin Range(dated.columns)
        THEN Raised("ValueError", "Missing required column")
        ELSE Returned(SelectColumns(
                 Assign(AdjCloseOf(dated, has_adj_close), "ticker",
                        [k \in 1..Len(dated.data) |-> ticker]),
                 DataModelColumns))

\* Lines 86-107: the frame of flat columns, or the exception.
FlatFrame(data) ==
    LET reset == ResetIndex(data)
        dated == WithDateColumn(LowerColumns(reset, Len(reset.columns)))
        cols == Range(dated.columns)
    IN  IF "adj close" \notin cols /\ "adj_close" \notin cols /\ "close" \notin cols
        THEN Raised("KeyError", "close")
        ELSE LET adj == IF "adj close" \in cols
                        THEN Assign(dated, "adj_close", Column(dated, "adj close"))
                        ELSE IF "adj_close" \notin cols
                        THEN Assign(dated, "adj_close", Column(dated, "close"))
                        ELSE dated
             IN  IF "ticker" \notin cols
                 THEN Raised("ValueError", "Ticker column missing for single ticker data")
                 ELSE IF \E c \in Range(DataModelColumns) : c \notin Range(adj.columns)
                 THEN Raised("KeyError", "not in index")
                 ELSE Returned(SelectColumns(adj, DataModelColumns))

\* transform_yfinance_data(data).
TransformYfinanceData(data) ==
    IF IsEmpty(data) THEN Returned(EmptyFrame(DataModelColumns))
    ELSE IF data.multi
    THEN LET tks == Unique(Level(data, 1))
             has_adj_close == "Adj Close" \in Range(Level(data, 2))
             frames == [k \in 1..Len(tks) |-> TickerFrame(data, tks[k], has_adj_close)]
         IN  IF \E k \in 1..Len(tks) : frames[k].exc.type # "none"
             THEN frames[CHOOSE k \in 1..Len(tks) :
                           /\ frames[k].exc.type # "none"
                           /\ \A j \in 1..(k - 1) : frames[j].exc.type = "none"]
             ELSE Returned(CleanStockData(
                      Concat([k \in 1..Len(tks) |-> Plain(frames[k].ret)])))
    ELSE LET flat == FlatFrame(data)
         IN  IF flat.exc.type # "none" THEN flat
             ELSE Returned(CleanStockData(Concat(<<Plain(flat.ret)>>)))

\* ------------------------------------------------- transform_finnhub_data
\* transform_finnhub_data(data).
TransformFinnhubData(data) ==
    IF IsEmpty(data) THEN Returned(EmptyFrame(DataModelColumns))
    ELSE IF data.multi THEN Raised("KeyError", "close")
    ELSE LET renamed == Rename(Rename(data, "symbol", "ticker"), "datetime", "date")
             dated == IF "date" \in Range(renamed.columns)
                      THEN Assign(renamed, "date",
                             [k \in 1..Len(renamed.data) |-> ToDatetime(renamed.data[k].date)])
                      ELSE Plain(renamed)
         IN  IF "adj_close" \notin Range(dated.columns) /\ "close" \notin Range(dated.columns)
             THEN Raised("KeyError", "close")
             ELSE LET adj == IF "adj_close" \notin Range(dated.columns)
                             THEN Assign(dated, "adj_close", Column(dated, "close"))
                             ELSE dated
                  IN  IF \E c \in Range(DataModelColumns) : c \notin Range(adj.columns)
                      THEN Raised("ValueError", "Missing required columns")
                      ELSE Returned(CleanStockData(SelectColumns(adj, DataModelColumns)))

\* ----------------------------------------------- transform_extracted_data
\* The strings 'yfinance' and 'finnhub'.
yfinance == <<121, 102, 105, 110, 97, 110, 99, 101>>

finnhub == <<102, 105, 110, 110, 104, 117, 98>>

\* Python objects: a DataFrame, a dict (its items in order), or None.
DataFrameObj(df) == [kind |-> "DataFrame", df |-> df, items |-> <<>>]

DictObj(items) == [kind |-> "dict", df |-> <<>>, items |-> items]

NoneObj == [kind |-> "None", df |-> <<>>, items |-> <<>>]

HasKey(d, key) == \E k \in 1..Len(d.items) : d.items[k].key = key

\* Any source but 'finnhub' taken for 'yfinance'.
RouteByDefault(df, source) ==
    IF Lower(source) = finnhub THEN TransformFinnhubData(df)
    ELSE TransformYfinanceData(df)

\* Lines 264-269 on a DataFrame.
Route(df, source) ==
    IF Lower(source) = yfinance THEN TransformYfinanceData(df)
    ELSE IF Lower(source) = finnhub THEN TransformFinnhubData(df)
    ELSE Raised("ValueError", "Unknown data source")

\* transform_extracted_data(extracted_data, source).
TransformExtractedData(extracted_data, source) ==
    IF extracted_data.kind = "dict"
    THEN IF HasKey(extracted_data, "api_1_data") \/ HasKey(extracted_data, "api_2_data")
         THEN Returned(EmptyFrame(DataModelColumns))
         ELSE IF \E k \in 1..Len(extracted_data.items) :
                     extracted_data.items[k].value.kind = "DataFrame"
         THEN LET first == CHOOSE k \in 1..Len(extracted_data.items) :
                             /\ extracted_data.items[k].value.kind = "DataFrame"
                             /\ \A j \in 1..(k - 1) :
                                   extracted_data.items[j].value.kind # "DataFrame"
              IN  Route(extracted_data.items[first].value.df, source)
         ELSE Raised("ValueError", "Could not find DataFrame in extracted_data dict")
    ELSE IF extracted_data.kind # "DataFrame"
    THEN Raised("TypeError", "extracted_data must be DataFrame or dict containing DataFrame")
    ELSE Route(extracted_data.df, source)

\* --------------------------------------- the transformers called directly
MaxBars == 2

\* The bars of a provider's table: one that passes every check, one without
\* an adjusted close, one with the close above the high.
ProviderBars ==
    {[GoodBar EXCEPT !.adj_close = RatInt(1)],
     [GoodBar EXCEPT !.adj_close = NaN],
     [GoodBar EXCEPT !.close = RatInt(4), !.adj_close = RatInt(1)]}

\* The value under a column label in a row of a provider's table.
CellValue(row, label) ==
    CASE label \in {"Open", "open"} -> row.open
      [] label \in {"High", "high"} -> row.high
      [] label \in {"Low", "low"} -> row.low
      [] label \in {"Close", "close"} -> row.close
      [] label \in {"Volume", "volume"} -> row.volume
      [] label \in {"Adj Close", "adj_close"} -> row.adj_close
      [] label \in {"symbol", "ticker"} -> row.ticker
      [] label \in {"datetime", "date"} -> row.date

\* The trading day of the k-th row: a Timestamp, or the seconds since the
\* epoch as an integer.
DayStamp(k) == Timestamp(k * HoursPerDay)

DaySeconds(k) == IntLabel(k * HoursPerDay * SecondsPerHour)

\* The field lists a ticker can have in a table of yf.download.
YfFields ==
    {<<"Open", "High", "Low", "Close", "Adj Close", "Volume">>,
     <<"Open", "High", "Low", "Close", "Volume">>,
     <<"Open", "High", "Low", "Close", "Adj Close">>}

RECURSIVE Labels(_, _)
\* The MultiIndex of the tickers tks with the field lists fields.
Labels(tks, fields) ==
    IF tks = <<>> THEN <<>>
    ELSE [k \in 1..Len(fields[Head(tks)]) |-> <<Head(tks), fields[Head(tks)][k]>>]
         \o Labels(Tail(tks), fields)

\* The grouped tables of yf.download for the tickers tks: one row per day,
\* the index named 'Date' or not named, up to n rows.
YfMultiFrames(tks, n) ==
    {[multi |-> TRUE,
      names |-> <<"Ticker", "Price">>,
      columns |-> Labels(tks, fields),
      index_name |-> name,
      index |-> [k \in 1..Len(bars) |-> DayStamp(k)],
      data |-> [k \in 1..Len(bars) |->
                  [l \in Range(Labels(tks, fields)) |-> CellValue(bars[k][l[1]], l[2])]]] :
        fields \in [Range(tks) -> YfFields],
        name \in {"Date", "none"},
        bars \in UNION {[1..m -> [Range(tks) -> ProviderBars]] : m \in 0..n}}

\* The tables with flat columns for the ticker "A", up to n rows.
FlatFrames(columnLists, names, dates, n) ==
    {[multi |-> FALSE,
      columns |-> cols,
      index_name |-> name,
      index |-> IF name = "none" THEN RangeIndex(Len(bars))
                ELSE [k \in 1..Len(bars) |-> DayStamp(k)],
      data |-> [k \in 1..Len(bars) |->
                  [c \in Range(cols) |->
                     CellValue([ticker |-> <<65>>, date |-> dates[k],
                                open |-> bars[k].open, high |-> bars[k].high,
                                low |-> bars[k].low, close |-> bars[k].close,
                                adj_close |-> bars[k].adj_close,
                                volume |-> bars[k].volume], c)]]] :
        cols \in columnLists,
        name \in names,
        bars \in UNION {[1..m -> ProviderBars] : m \in 0..n}}

\* yf.download of one ticker with flat columns, with and without a ticker
\* column and an adjusted close.
YfFlatFrames(n) ==
    FlatFrames({<<"Open", "High", "Low", "Close", "Volume">> \o adj \o tk :
                    adj \in {<<>>, <<"Adj Close">>, <<"adj_close">>},
                    tk \in {<<>>, <<"ticker">>}},
               {"Date", "none"},
               [k \in 1..n |-> DayStamp(k)], n)

\* Finnhub candles: symbol and datetime, or ticker and date; with or without
\* volume and adj_close; the time a Timestamp or the seconds since the epoch.
FinnhubFrames(n) ==
    UNION {FlatFrames({keys \o <<"open", "high", "low", "close">> \o vol \o adj :
                          keys \in {<<"symbol", "datetime">>, <<"ticker", "date">>},
                          vol \in {<<>>, <<"volume">>},
                          adj \in {<<>>, <<"adj_close">>}},
                      {"none"}, dates, n) :
           dates \in {[k \in 1..n |-> DayStamp(k)],
                      [k \in 1..n |-> DaySeconds(k)]}}

\* The tables of one ticker.
SmallFrames(n) == YfMultiFrames(<<<<65>>>>, n) \cup YfFlatFrames(n) \cup FinnhubFrames(n)

ProviderFrames(n) == SmallFrames(n) \cup YfMultiFrames(<<<<66>>, <<65>>>>, n)

\* The sources 'yfinance', 'YFinance', 'finnhub', 'FINNHUB' and 'csv'.
Sources ==
    {yfinance, <<89, 70>> \o SubSeq(yfinance, 3, 8), finnhub, Upper(finnhub),
     <<99, 115, 118>>}

\* What Extract hands over: a DataFrame, the dict of compile_extracted_data
\* around a DataFrame or around None, the placeholder dict, or None.
ExtractedData(n) ==
    {DataFrameObj(df) : df \in SmallFrames(n)}
    \cup {DictObj(<<[key |-> "yfinance_data", value |-> DataFrameObj(df)]>>) :
            df \in SmallFrames(n)}
    \cup {DictObj(<<[key |-> "yfinance_data", value |-> NoneObj]>>),
          DictObj(<<[key |-> "api_1_data", value |-> NoneObj],
                    [key |-> "api_2_data", value |-> NoneObj]>>),
          DictObj(<<[key |-> "api_1_data", value |-> NoneObj]>>),
          NoneObj}
    \cup {DictObj(<<[key |-> "yfinance_data", value |-> DataFrameObj(df)],
                    [key |-> "api_2_data", value |-> NoneObj]>>) :
            df \in YfMultiFrames(<<<<65>>>>, n)}

InitTransform ==
    /\ EngineIdle
    /\ fn_pc = "called"
    /\ \/ fn = "transform_yfinance_data" /\ fn_arg \in ProviderFrames(MaxBars)
       \/ fn = "transform_finnhub_data" /\ fn_arg \in ProviderFrames(MaxBars)
       \/ /\ fn = "transform_extracted_data"
          /\ fn_arg \in [extracted_data : ExtractedData(MaxBars), source : Sources]
    /\ fn_ret = <<>>
    /\ fn_exc = [type |-> "none", msg |-> ""]
    /\ fn_kept = <<>>

\* The direct call ends with the outcome: a returned table or an exception.
Finish(outcome) ==
    /\ fn_pc' = IF outcome.exc.type = "none" THEN "returned" ELSE "raised"
    /\ fn_ret' = outcome.ret
    /\ fn_exc' = outcome.exc
    /\ UNCHANGED <<engine_vars, model_vars, fn, fn_arg, fn_kept>>

TransformYfinance ==
    /\ fn = "transform_yfinance_data"
    /\ fn_pc = "called"
    /\ Finish(TransformYfinanceData(fn_arg))

TransformFinnhub ==
    /\ fn = "transform_finnhub_data"
    /\ fn_pc = "called"
    /\ Finish(TransformFinnhubData(fn_arg))

TransformExtracted ==
    /\ fn = "transform_extracted_data"
    /\ fn_pc = "called"
    /\ Finish(TransformExtractedData(fn_arg.extracted_data, fn_arg.source))

NextTransform == TransformYfinance \/ TransformFinnhub \/ TransformExtracted

SpecTransform == InitTransform /\ [][NextTransform]_vars

\* =================================================================== claims
N == Len(tickers)

Done == pc \in {"returned", "error"}

\* The parameters the specification calls valid.
ValidParams ==
    /\ Len(tickers) > 0
    /\ years > 0
    /\ num_simulations > 0
    /\ portfolio_value > 0

\* The dates on which every requested symbol has a price.
CommonDates == {t \in Dates : \A s \in SymbolsOf(tickers) : t >= listed[s]}

\* A usable history leaves at least two log-return rows.
UsableHistory == Cardinality(CommonDates) >= 3

NoRepeatedTicker == Cardinality(SymbolsOf(tickers)) = Len(tickers)

\* The row of simulation s and ticker position k (1-based) sits at s * N + k.
RowsOfAllPairs(t) ==
    \A s \in 0..(num_simulations - 1) : \A k \in 1..N :
        /\ s * N + k \in 1..Len(t)
        /\ t[s * N + k].simulation_id = s
        /\ t[s * N + k].ticker = tickers[k]

\* C1: with valid parameters and a usable history the returned table has
\* exactly num_simulations * len(tickers) rows, one per (simulation, ticker
\* position) pair; and such a call, when no ticker is repeated, does return.
C1_RowCount ==
    (ValidParams /\ UsableHistory) =>
        /\ pc = "returned" =>
              /\ Len(table) = num_simulations * N
              /\ RowsOfAllPairs(table)
        /\ NoRepeatedTicker => pc # "error"

C1_Witness ==
    /\ pc = "returned"
    /\ ValidParams /\ UsableHistory
    /\ N = 2 /\ num_simulations = 2
    /\ Len(table) = 4

\* C2: at every point of the loop and in the returned table the k-th emitted
\* row has id k - 1, the ids start at 0 and have no gap, the rows come
\* simulation-major then ticker-minor, and the row of simulation s and ticker
\* index i has id s * N + i; the counter is the number of rows emitted.
IdsInEmissionOrder(t) ==
    \A k \in 1..Len(t) :
        /\ t[k].id = k - 1
        /\ t[k].simulation_id = (k - 1) \div N
        /\ t[k].ticker = tickers[((k - 1) % N) + 1]
        /\ t[k].id = t[k].simulation_id * N + ((k - 1) % N)

C2_SequentialIds ==
    /\ IdsInEmissionOrder(results)
    /\ IdsInEmissionOrder(table)
    /\ pc \in {"loop", "row"} => row_id = Len(results) /\ row_id = sim * N + i

C2_Witness ==
    /\ pc = "row"
    /\ N = 2
    /\ Len(results) = 3
    /\ results[3].id = 2 /\ results[3].simulation_id = 1

\* C3: a call with an empty ticker list or a non-positive years,
\* num_simulations or portfolio_value ends in InvalidParameterError, before
\* any download, estimation or draw, and returns no table.
C3_RejectsInvalidParameters ==
    (Done /\ ~ValidParams) =>
        /\ pc = "error"
        /\ error = "InvalidParameterError"
        /\ stages = {}

\* C4: with valid parameters, a call for a ticker that has no price at all in
\* the window ends in MissingTickerDataError.
SomeTickerAllMissing == \E s \in SymbolsOf(tickers) : listed[s] > MaxDates

C4_MissingTickerData ==
    (Done /\ ValidParams /\ SomeTickerAllMissing) =>
        /\ pc = "error"
        /\ error = "MissingTickerDataError"

\* C5: with valid parameters, a call whose aligned history leaves fewer than
\* two log-return rows ends in InsufficientDataError, without a draw and
\* without a row.
C5_InsufficientData ==
    (Done /\ ValidParams /\ ~UsableHistory) =>
        /\ pc = "error"
        /\ error = "InsufficientDataError"
        /\ "draw" \notin stages
        /\ results = <<>>

\* C6: a call is all-or-nothing: what it returns is the complete table (all
\* rows of the loop, never fewer than num_simulations * N), and until it
\* returns, and when it ends in an error, the caller has no row at all.
C6_AllOrNothing ==
    /\ pc = "returned" =>
          /\ error = "none"
          /\ table = results
          /\ ~(Len(table) < num_simulations * N)
          /\ RowsOfAllPairs(table)
    /\ pc # "returned" => table = <<>>

C6_Witness ==
    /\ pc = "error"
    /\ Len(results) > 0
    /\ table = <<>>

\* C7: every emitted row has starting_value = portfolio_value / len(tickers):
\* N times the starting value is the portfolio value, in every row.
EqualWeight(t) ==
    \A k \in 1..Len(t) :
        FEq(RealMul(t[k].starting_value, RealOf(RatInt(N))),
            RealOf(RatInt(portfolio_value)))

C7_EqualWeightSplit == EqualWeight(results) /\ EqualWeight(table)

C7_Witness ==
    /\ pc = "returned"
    /\ N = 2 /\ portfolio_value = 3
    /\ Len(table) = 4
    /\ table[4].starting_value = RealOf(Rat(3, 2))

\* C8: every emitted row has probability = 1 / num_simulations.
UniformProbability(t) ==
    \A k \in 1..Len(t) :
        /\ ~IsNaN(t[k].probability)
        /\ RatMul(t[k].probability, RatInt(num_simulations)) = RatInt(1)

C8_UniformProbability == UniformProbability(results) /\ UniformProbability(table)

C8_Witness ==
    /\ pc = "returned"
    /\ num_simulations = 2
    /\ Len(table) >= 2
    /\ table[1].probability = Rat(1, 2)
    /\ table[Len(table)].probability = Rat(1, 2)

\* C9: two calls with identical parameters, identical price history and the
\* same seed of the random source return identical tables, whatever state
\* earlier calls left the random source in.
C9_Deterministic ==
    (calls >= 2 /\ pc = "returned" /\ prev.outcome = "returned" /\ prev.seed = rng.seed)
        => table = prev.table

\* C10: in every emitted row cumulative_return == ending_value /
\* starting_value - 1 and annual_return == (1 + cumulative_return)^(1/years)
\* - 1, and ending_value == starting_value * exp(sum of the row's column of
\* the row's simulated path).
Unshift(s) == CASE s.k = 0 -> s.x

ReturnsConsistent(r) ==
    /\ SEq(r.cumulative_return,
           Shift(Lift(RealDiv(r.ending_value, r.starting_value)), -1))
    /\ SEq(r.annual_return,
           Shift(Lift(Pow(Unshift(Shift(r.cumulative_return, 1)),
                          Rat(1, years))), -1))

EndingFromPath(r, col) ==
    FEq(r.ending_value,
        RealMul(r.starting_value, Exp(Sum(TickerReturns(simulated, col)))))

C10_ReturnsConsistent ==
    \A k \in 1..Len(results) :
        /\ ReturnsConsistent(results[k])
        /\ (pc = "row" /\ results[k].simulation_id = sim)
              => EndingFromPath(results[k], (k - 1) % N)

\* ------------------------------------------------------------------- C11
Estimated == fn = "estimate" /\ fn_pc = "returned"

\* The dates of the downloaded table on which every column has a price.
AlignedDates ==
    {t \in Dates : \A j \in 1..Len(fn_arg.cols) : ~IsNaN(fn_arg.rows[t].v[j])}

\* q = p * 2^r, for prices p, q and an integer r.
IsLog2Ratio(r, q, p) ==
    /\ r[2] = 1
    /\ IF r[1] >= 0 THEN q = RatMul(p, RatInt(Pow2(r[1])))
       ELSE p = RatMul(q, RatInt(Pow2(-r[1])))

\* C11: the estimation keeps exactly the dates on which every column of the
\* downloaded table has a price, each with the downloaded prices and in date
\* order, and for T such dates (T >= 1) it has exactly T - 1 log-return rows,
\* row t being for each column the log of the ratio of the prices on the
\* (t+1)-th and the t-th aligned date; with no aligned date it has no row.
C11_AlignedLogReturns ==
    Estimated =>
        LET T == Cardinality(AlignedDates)
            aligned == SortedSeq(AlignedDates)
        IN  /\ Len(price_data) = T
            /\ \A t \in 1..T :
                  /\ price_data[t].date = aligned[t]
                  /\ price_data[t].v = fn_arg.rows[aligned[t]].v
            /\ Len(daily_returns) = IF T >= 1 THEN T - 1 ELSE 0
            /\ \A t \in 1..(T - 1) :
                  /\ daily_returns[t].date = aligned[t + 1]
                  /\ \A j \in 1..Len(fn_arg.cols) :
                        IsLog2Ratio(daily_returns[t].v[j],
                                    fn_arg.rows[aligned[t + 1]].v[j],
                                    fn_arg.rows[aligned[t]].v[j])

\* Two columns, one without a price on a date between two aligned dates: the
\* date is dropped and the one return row spans the gap.
C11_Witness ==
    /\ Estimated
    /\ Len(fn_arg.cols) = 2
    /\ \E a, b, c \in Dates :
          /\ a < b /\ b < c
          /\ AlignedDates = {a, c}
          /\ IsNaN(fn_arg.rows[b].v[2]) /\ ~IsNaN(fn_arg.rows[b].v[1])
    /\ Len(daily_returns) = 1
    /\ daily_returns[1].v[1] # RatInt(0)

\* ------------------------------------------------------------------- C12
Cleaned == fn = "clean_stock_data" /\ fn_pc = "returned"

\* The conditions on the prices of a row.
PricesValid(r) ==
    /\ \A c \in Range(PriceCols) : Positive(r[c])
    /\ Geq(r.high, r.low) /\ Geq(r.high, r.open) /\ Geq(r.high, r.close)
    /\ Geq(r.open, r.low) /\ Geq(r.close, r.low)

\* An input row violates a condition: a price does, or its volume is negative.
Violates(r) == ~PricesValid(r) \/ (~IsNaN(r.volume) /\ r.volume[1] < 0)

\* The pair a row is identified by.
KeyOf(r) == <<Upper(r.ticker), DtDate(ToDatetime(r.date))>>

\* An earlier row without a violation has the pair of row k.
IsDuplicate(df, k) ==
    \E j \in 1..(k - 1) :
        ~Violates(df.data[j]) /\ KeyOf(df.data[j]) = KeyOf(df.data[k])

\* C12: every row clean_stock_data returns has non-missing, strictly positive
\* open, high, low, close and adj_close, high >= low, open, close, low <= open,
\* close, and volume >= 0; every input row violating one of these conditions
\* is absent from the result and no valid, non-duplicate input row is removed.
C12_OnlyValidRows ==
    Cleaned =>
        /\ \A k \in 1..Len(fn_ret.data) :
              /\ PricesValid(fn_ret.data[k])
              /\ Geq(fn_ret.data[k].volume, RatInt(0))
        /\ \A k \in 1..Len(fn_arg.data) :
              /\ Violates(fn_arg.data[k]) => fn_arg.index[k] \notin Range(fn_kept)
              /\ (~Violates(fn_arg.data[k]) /\ ~IsDuplicate(fn_arg, k))
                    => fn_arg.index[k] \in Range(fn_kept)

\* The volume of no input row lies strictly between -1 and 0.
NoFractionalNegativeVolume ==
    \A k \in 1..Len(fn_arg.data) :
        LET q == fn_arg.data[k].volume
        IN  IsNaN(q) \/ q[1] >= 0 \/ -q[1] >= q[2]

\* The statement of C12 for the tables without such a volume.
OnlyValidRowsOfWholeVolumes ==
    (fn = "clean_stock_data" /\ NoFractionalNegativeVolume) => C12_OnlyValidRows

\* ------------------------------------------------------------------- C13
\* Row k is the first input row without a violation that has its pair.
FirstOfPair(df, k) == ~Violates(df.data[k]) /\ ~IsDuplicate(df, k)

\* Another input row without a violation has the pair of row k.
SharesPair(df, k) ==
    \E j \in 1..Len(df.data) :
        j # k /\ ~Violates(df.data[j]) /\ KeyOf(df.data[j]) = KeyOf(df.data[k])

\* C13: the result of clean_stock_data has no two rows with the same pair of
\* upper-cased ticker and day, its rows are sorted by ticker and then date,
\* and of several valid input rows sharing a pair exactly one, the first in
\* input order, is kept.
C13_UniqueSortedFirstKept ==
    Cleaned =>
        /\ \A j, k \in 1..Len(fn_ret.data) :
              j < k => /\ <<fn_ret.data[j].ticker, fn_ret.data[j].date>>
                            # <<fn_ret.data[k].ticker, fn_ret.data[k].date>>
                       /\ RowLess(fn_ret.data[j], fn_ret.data[k])
        /\ \A k \in 1..Len(fn_ret.data) :
              /\ fn_ret.data[k].ticker = Upper(fn_ret.data[k].ticker)
              /\ fn_ret.data[k].date.kind = "date"
        /\ \A k \in 1..Len(fn_arg.data) :
              (~Violates(fn_arg.data[k]) /\ SharesPair(fn_arg, k))
                  => (fn_arg.index[k] \in Range(fn_kept) <=> FirstOfPair(fn_arg, k))

\* The statement of C13 for the tables without such a volume.
FirstKeptOfWholeVolumes ==
    (fn = "clean_stock_data" /\ NoFractionalNegativeVolume) => C13_UniqueSortedFirstKept

\* Rows with the pairs out of order and one pair twice have been cleaned.
CleanedUnsortedDuplicates ==
    /\ Cleaned
    /\ NoFractionalNegativeVolume
    /\ Len(fn_arg.data) = 3
    /\ fn_kept = <<IntLabel(1), IntLabel(0)>>

\* ------------------------------------------------------------------- C14
ExtractedDone == fn = "transform_extracted_data" /\ fn_pc # "called"

UnknownSource(source) == Lower(source) # yfinance /\ Lower(source) # finnhub

\* The dict has a placeholder key.
IsPlaceholder(d) ==
    d.kind = "dict" /\ (HasKey(d, "api_1_data") \/ HasKey(d, "api_2_data"))

\* The dict holds a DataFrame.
HoldsFrame(d) ==
    d.kind = "dict" /\ \E k \in 1..Len(d.items) : d.items[k].value.kind = "DataFrame"

RaisedUnknownSource ==
    /\ fn_pc = "raised"
    /\ fn_exc = [type |-> "ValueError", msg |-> "Unknown data source"]
    /\ fn_ret = <<>>

\* C14 as stated: transform_extracted_data with a source other than
\* 'yfinance' and 'finnhub', compared without case, raises ValueError
\* 'Unknown data source' and returns no table, for every DataFrame and every
\* dict of the Extract step, the placeholder dict included.
C14_UnknownSourceRaises ==
    (/\ ExtractedDone
     /\ UnknownSource(fn_arg.source)
     /\ \/ fn_arg.extracted_data.kind = "DataFrame"
        \/ HoldsFrame(fn_arg.extracted_data)
        \/ IsPlaceholder(fn_arg.extracted_data))
        => RaisedUnknownSource

\* C14 amended: with such a source transform_extracted_data raises ValueError
\* 'Unknown data source' and returns no table for every DataFrame and every
\* dict that holds a DataFrame and has no placeholder key; for a dict with
\* the key api_1_data or api_2_data it returns the empty table of the eight
\* columns, whatever the source.
C14_UnknownSourceRaisesOnFrames ==
    ExtractedDone =>
        /\ (/\ UnknownSource(fn_arg.source)
            /\ \/ fn_arg.extracted_data.kind = "DataFrame"
               \/ /\ HoldsFrame(fn_arg.extracted_data)
                  /\ ~IsPlaceholder(fn_arg.extracted_data))
              => RaisedUnknownSource
        /\ IsPlaceholder(fn_arg.extracted_data)
              => /\ fn_pc = "returned"
                 /\ fn_ret = EmptyFrame(DataModelColumns)

\* The dict of the Extract step around a table with rows, and the source
\* 'csv': the call has raised.
C14_Witness ==
    /\ ExtractedDone
    /\ fn_arg.source = <<99, 115, 118>>
    /\ HoldsFrame(fn_arg.extracted_data)
    /\ ~IsPlaceholder(fn_arg.extracted_data)
    /\ Len(fn_arg.extracted_data.items[1].value.df.data) > 0
    /\ RaisedUnknownSource

\* ------------------------------------------------------------------- C15
Transformed ==
    /\ fn \in {"transform_yfinance_data", "transform_finnhub_data",
               "transform_extracted_data"}
    /\ fn_pc # "called"

\* The call is given no row: an empty table, or for
\* transform_extracted_data an empty DataFrame or a dict none of whose
\* values is a DataFrame with rows.
EmptyInput ==
    IF fn # "transform_extracted_data" THEN IsEmpty(fn_arg)
    ELSE LET d == fn_arg.extracted_data
         IN  \/ d.kind = "DataFrame" /\ IsEmpty(d.df)
             \/ /\ d.kind = "dict"
                /\ \A k \in 1..Len(d.items) :
                      d.items[k].value.kind = "DataFrame"
                          => IsEmpty(d.items[k].value.df)

\* Every returned table has the eight columns in the order of the data model.
ReturnsEightColumns ==
    fn_pc = "returned" =>
        /\ fn_ret.columns = DataModelColumns
        /\ \A k \in 1..Len(fn_ret.data) :
              DOMAIN fn_ret.data[k] = Range(DataModelColumns)

ReturnedEmptyTable ==
    /\ fn_pc = "returned"
    /\ fn_ret = EmptyFrame(DataModelColumns)
    /\ fn_exc.type = "none"

\* C15 as stated: every table transform_yfinance_data, transform_finnhub_data
\* and transform_extracted_data return has exactly the columns ticker, date,
\* open, high, low, close, adj_close, volume in this order, and every empty
\* input gives an empty table with these columns and no exception.
C15_EightColumns ==
    Transformed =>
        /\ ReturnsEightColumns
        /\ EmptyInput => ReturnedEmptyTable

\* C15 amended: every returned table has the eight columns in this order; an
\* empty input of transform_yfinance_data and transform_finnhub_data gives
\* the empty eight-column table and no exception; an empty input of
\* transform_extracted_data gives it for a placeholder dict and for an empty
\* DataFrame (given directly or found in the dict) with a source that is
\* 'yfinance' or 'finnhub' without case, raises ValueError 'Could not find
\* DataFrame' for a dict without placeholder key and without DataFrame, and
\* raises ValueError 'Unknown data source' for an empty DataFrame with any
\* other source.
C15_EightColumnsOrValueError ==
    Transformed =>
        /\ ReturnsEightColumns
        /\ EmptyInput =>
              IF fn # "transform_extracted_data"
                    \/ IsPlaceholder(fn_arg.extracted_data)
              THEN ReturnedEmptyTable
              ELSE IF fn_arg.extracted_data.kind = "dict"
                        /\ ~HoldsFrame(fn_arg.extracted_data)
              THEN /\ fn_pc = "raised"
                   /\ fn_exc = [type |-> "ValueError",
                                msg |-> "Could not find DataFrame in extracted_data dict"]
                   /\ fn_ret = <<>>
              ELSE IF UnknownSource(fn_arg.source)
              THEN RaisedUnknownSource
              ELSE ReturnedEmptyTable

\* transform_extracted_data has been given an empty DataFrame inside the
\* dict of the Extract step with the source 'finnhub' and has returned the
\* empty table.
C15_EmptyWitness ==
    /\ Transformed
    /\ fn = "transform_extracted_data"
    /\ HoldsFrame(fn_arg.extracted_data)
    /\ ~IsPlaceholder(fn_arg.extracted_data)
    /\ EmptyInput
    /\ Lower(fn_arg.source) = finnhub
    /\ ReturnedEmptyTable

\* A grouped table of two tickers with rows and more than eight columns has
\* been transformed to a table with two rows.
C15_Witness ==
    /\ Transformed
    /\ fn = "transform_yfinance_data"
    /\ fn_arg.multi
    /\ Len(fn_arg.columns) > Len(DataModelColumns)
    /\ fn_pc = "returned"
    /\ Len(fn_ret.data) = 2

\* ------------------------------------------------------------------- C16
\* The adjusted-close label of a ticker in the given table, <<>> without one.
AdjLabelOf(df, ticker) ==
    IF df.multi
    THEN IF <<ticker, "Adj Close">> \in Range(df.columns)
         THEN <<<<ticker, "Adj Close">>>> ELSE <<>>
    ELSE IF "Adj Close" \in Range(df.columns) THEN <<"Adj Close">>
    ELSE IF "adj_close" \in Range(df.columns) THEN <<"adj_close">>
    ELSE <<>>

\* The close label of a ticker in the given table.
CloseLabelOf(df, ticker) ==
    IF df.multi THEN <<ticker, "Close">>
    ELSE IF "Close" \in Range(df.columns) THEN "Close" ELSE "close"

\* The tickers of a grouped table, or the one ticker "A" of a flat table.
TickersOf(df) == IF df.multi THEN Range(Level(df, 1)) ELSE {<<65>>}

\* C16: in a table transform_yfinance_data or transform_finnhub_data
\* returns, a row of a ticker for which the provider's table has no
\* adjusted-close column has adj_close equal to close, and a row of a ticker
\* for which it has one has the adjusted close and the close of one row of
\* the provider's table.
C16_AdjCloseFallback ==
    (/\ fn \in {"transform_yfinance_data", "transform_finnhub_data"}
     /\ fn_pc = "returned") =>
        \A k \in 1..Len(fn_ret.data) :
            LET o == fn_ret.data[k]
                t == CHOOSE t \in TickersOf(fn_arg) : Upper(t) = o.ticker
                adj == AdjLabelOf(fn_arg, t)
            IN  IF adj = <<>> THEN o.adj_close = o.close
                ELSE \E j \in 1..Len(fn_arg.data) :
                        /\ o.adj_close = fn_arg.data[j][adj[1]]
                        /\ o.close = fn_arg.data[j][CloseLabelOf(fn_arg, t)]

\* A grouped table of two tickers, one with an 'Adj Close' field and one
\* without: the result has a row with the adjusted close below the close and
\* a row with the two equal.
C16_Witness ==
    /\ fn = "transform_yfinance_data"
    /\ fn_pc = "returned"
    /\ fn_arg.multi
    /\ \E k, j \in 1..Len(fn_ret.data) :
          /\ fn_ret.data[k].adj_close # fn_ret.data[k].close
          /\ AdjLabelOf(fn_arg, fn_ret.data[j].ticker) = <<>>
          /\ fn_ret.data[j].adj_close = fn_ret.data[j].close

\* ------------------------------------------------------------------- C17
\* The columns of the downloaded price table, in its order.
PriceColumns == Download(listed, tickers).cols

\* C17: in run_monte_carlo column i of the simulated paths is the column of
\* tickers[i], for every order of the list and with a repeated ticker: once
\* the model is estimated every position of the list has its own ticker's
\* column, and every row comes from the column of the ticker it is labelled
\* with.
C17_ColumnOfOwnTicker ==
    "estimate" \in stages =>
        /\ \A k \in 1..Len(results) :
              LET col == ((k - 1) % N) + 1
              IN  col <= Len(PriceColumns) /\ PriceColumns[col] = results[k].ticker
        /\ pc = "returned" =>
              \A col \in 1..N :
                  col <= Len(PriceColumns) /\ PriceColumns[col] = tickers[col]

\* The statement of C17 for the lists in the order of the table's columns.
ColumnOfOwnTickerWhenSorted ==
    (NoRepeatedTicker /\ \A k \in 1..(N - 1) : tickers[k] < tickers[k + 1])
        => C17_ColumnOfOwnTicker

\* ------------------------------------------------------------------- C18
InLoop == pc \in {"loop", "row"}

\* The draws the current call has made.
DrawsDone == IF pc = "row" THEN sim + 1 ELSE sim

\* The position of the random stream at the first draw of the current call.
StreamStart == rng.pos - DrawsDone * num_days * Len(mean_returns)

\* The sum over the days of column c (1-based) of the path of simulation s
\* under the model of the state.  On day d the column holds the mean plus,
\* for each j, cov_matrix[j][c] times the j-th variate of the d-th block of
\* the s-th draw; the sum is taken variate index by variate index.
OwnColumnSum(s, c) ==
    LET n == Len(mean_returns)
        first == StreamStart + s * num_days * n
        z(j) == Sum([d \in 1..num_days |->
                       RatInt(StandardNormal(rng.seed, first + (d - 1) * n + (j - 1)))])
    IN  RatAdd(RatMul(RatInt(num_days), mean_returns[c]),
               Sum([j \in 1..n |-> RatMul(z(j), cov_matrix[j][c])]))

\* The model is the estimate from the arguments of the call.
ModelIsEstimate ==
    LET dl == Download(listed, tickers)
        rets == DropNa(LogReturns(DropNa(dl.rows)))
    IN  /\ mean_returns = Mean(rets, Len(dl.cols))
        /\ cov_matrix = Cov(rets, Len(dl.cols))
        /\ num_days = years * TradingDays

\* A row has just been emitted: the loop stands behind a pass of its body.
RowEmitted == Len(results) > 0 /\ (pc = "loop" \/ (pc = "row" /\ i > 0))

\* The row emitted last ends at the value its own simulation's path gives.
LastRowOfOwnPath ==
    RowEmitted =>
        LET k == Len(results)
            r == results[k]
        IN  r.ending_value =
                RealMul(r.starting_value,
                        Exp(OwnColumnSum(r.simulation_id, ((k - 1) % N) + 1)))

\* C18: mean_returns, cov_matrix and num_days are computed once before the
\* loop and no step of the loop changes them: in and after the loop they are
\* the estimate from the arguments, every row is computed, when it is
\* emitted, from the path drawn from them for its own simulation, and no
\* later step of the loop touches it.
C18_ModelFixed ==
    /\ [][InLoop => /\ model_vars' = model_vars
                    /\ Len(results') >= Len(results)
                    /\ SubSeq(results', 1, Len(results)) = results]_vars
    /\ [](pc \in {"loop", "row", "returned"} => ModelIsEstimate)
    /\ [](InLoop => LastRowOfOwnPath)

\* Two simulations of two tickers with a covariance have returned, and the
\* two paths differ.
C18_Witness ==
    /\ pc = "returned"
    /\ Len(results) = 4
    /\ ~HasNaN(cov_matrix)
    /\ cov_matrix[1][1] # RatInt(0)
    /\ OwnColumnSum(0, 1) # OwnColumnSum(1, 1)
    /\ results[1].ending_value # results[3].ending_value

====
